---- MODULE Spec2Model ----
(***************************************************************************)
(* A model of the Pexels MCP server of src/src/main.ts: the module-level   *)
(* workspacePath, the tool and resource handlers as sequences of atomic    *)
(* segments separated by their awaits, the filesystem they write to, and   *)
(* the POSIX path functions the download handlers call.                    *)
(*                                                                         *)
(* Strings that the code takes apart (paths, ids written in a resource     *)
(* address) are sequences of one-character strings: "/w" is <<"/","w">>,   *)
(* and the empty string is <<>>.  Labels the code only compares or prints  *)
(* (size and quality names, message templates) are TLA+ strings.           *)
(***************************************************************************)
EXTENDS Integers, Sequences, FiniteSets, TLC

\* ------------------------------------------------------------ bounds

\* Tool calls and resource reads the host issues in one run.
MaxCalls == 3

\* Invocations the host keeps in flight at the same time.
MaxInFlight == 2

\* ------------------------------------------------- strings and paths

Null == [null |-> TRUE]

Range(s) == { s[i] : i \in 1..Len(s) }

RECURSIVE Concat(_)
\* The concatenation of a sequence of strings.
Concat(ss) == IF ss = <<>> THEN <<>> ELSE Head(ss) \o Concat(Tail(ss))

RECURSIVE Split(_)
\* s.split("/"): the segments between the separators, empty ones kept.
Split(s) ==
  IF \A i \in 1..Len(s) : s[i] # "/"
  THEN <<s>>
  ELSE LET i == CHOOSE k \in 1..Len(s) :
                  s[k] = "/" /\ \A j \in 1..(k - 1) : s[j] # "/"
       IN <<SubSeq(s, 1, i - 1)>> \o Split(SubSeq(s, i + 1, Len(s)))

RECURSIVE JoinSegs(_)
\* The segments joined by "/".
JoinSegs(segs) ==
  IF segs = <<>> THEN <<>>
  ELSE IF Len(segs) = 1 THEN segs[1]
  ELSE segs[1] \o <<"/">> \o JoinSegs(Tail(segs))

RECURSIVE NormalizeSegs(_, _, _)
\* posix normalizeString: "." and empty segments dropped, ".." removes the
\* segment before it, and is kept only where the path may climb above its
\* start (a relative path).
NormalizeSegs(segs, res, allowAboveRoot) ==
  IF segs = <<>> THEN res
  ELSE LET seg == Head(segs)
           rest == Tail(segs)
       IN IF seg = <<>> \/ seg = <<".">>
          THEN NormalizeSegs(rest, res, allowAboveRoot)
          ELSE IF seg = <<".", ".">>
          THEN IF res # <<>> /\ res[Len(res)] # <<".", ".">>
               THEN NormalizeSegs(rest, SubSeq(res, 1, Len(res) - 1), allowAboveRoot)
               ELSE IF allowAboveRoot
               THEN NormalizeSegs(rest, Append(res, seg), allowAboveRoot)
               ELSE NormalizeSegs(rest, res, allowAboveRoot)
          ELSE NormalizeSegs(rest, Append(res, seg), allowAboveRoot)

\* path.posix.normalize
PathNormalize(p) ==
  IF p = <<>> THEN <<".">>
  ELSE LET isAbsolute == p[1] = "/"
           trailingSeparator == p[Len(p)] = "/"
           body == JoinSegs(NormalizeSegs(Split(p), <<>>, ~isAbsolute))
       IN IF body = <<>>
          THEN IF isAbsolute THEN <<"/">>
               ELSE IF trailingSeparator THEN <<".", "/">> ELSE <<".">>
          ELSE (IF isAbsolute THEN <<"/">> ELSE <<>>)
               \o body
               \o (IF trailingSeparator THEN <<"/">> ELSE <<>>)

\* path.posix.resolve in place of join: an absolute second argument takes the
\* place of the first.
PathResolve(a, b) ==
  IF b # <<>> /\ b[1] = "/" THEN PathNormalize(b)
  ELSE IF a = <<>> /\ b = <<>> THEN <<".">>
  ELSE IF a = <<>> THEN PathNormalize(b)
  ELSE IF b = <<>> THEN PathNormalize(a)
  ELSE PathNormalize(a \o <<"/">> \o b)

\* path.posix.join of two arguments: the non-empty ones joined by "/" and
\* normalized; "." when both are empty.
PathJoin(a, b) ==
  IF a = <<>> /\ b = <<>> THEN <<".">>
  ELSE IF a = <<>> THEN PathNormalize(b)
  ELSE IF b = <<>> THEN PathNormalize(a)
  ELSE PathNormalize(a \o <<"/">> \o b)

\* The length of p without its trailing separators.
TrimEnd(p) ==
  IF \A i \in 1..Len(p) : p[i] = "/" THEN 0
  ELSE CHOOSE e \in 1..Len(p) : p[e] # "/" /\ \A j \in (e + 1)..Len(p) : p[j] = "/"

\* The index where the last segment of p starts (trailing separators apart).
LastSegStart(p) ==
  LET e == TrimEnd(p)
  IN IF \A i \in 1..e : p[i] # "/" THEN 1
     ELSE 1 + CHOOSE k \in 1..e : p[k] = "/" /\ \A j \in (k + 1)..e : p[j] # "/"

\* The last segment of p.
LastSeg(p) == SubSeq(p, LastSegStart(p), TrimEnd(p))

\* path.posix.dirname
PathDirname(p) ==
  IF p = <<>> THEN <<".">>
  ELSE LET hasRoot == p[1] = "/"
           \* the separator before the last segment, looked for from index 2 on
           cands == { i \in 2..Len(p) :
                        p[i] = "/" /\ \E j \in (i + 1)..Len(p) : p[j] # "/" }
       IN IF cands = {}
          THEN IF hasRoot THEN <<"/">> ELSE <<".">>
          ELSE LET end == CHOOSE i \in cands : \A k \in cands : k <= i
               IN IF hasRoot /\ end = 2 THEN <<"/", "/">>
                  ELSE SubSeq(p, 1, end - 1)

\* path.posix.extname: from the last "." of the last segment to its end; empty
\* when there is no ".", when the "." starts the segment, and for "..".
PathExtname(p) ==
  LET seg == LastSeg(p)
      dots == { i \in 1..Len(seg) : seg[i] = "." }
  IN IF dots = {} THEN <<>>
     ELSE LET startDot == CHOOSE i \in dots : \A k \in dots : k <= i
          IN IF startDot = 1 THEN <<>>
             ELSE IF seg = <<".", ".">> THEN <<>>
             ELSE SubSeq(seg, startDot, Len(seg))

\* path.posix.basename(p, suffix): the last segment, without the suffix when
\* it ends with it and is longer than it.
PathBasename(p, suffix) ==
  LET seg == LastSeg(p)
      n == Len(seg)
      m == Len(suffix)
  IN IF m > 0 /\ m < n /\ SubSeq(seg, n - m + 1, n) = suffix
     THEN SubSeq(seg, 1, n - m)
     ELSE seg

\* The characters of a label the code prints into a file name.
Chars(label) ==
  CASE label = "original" -> <<"o", "r", "i", "g", "i", "n", "a", "l">>
    [] label = "large2x" -> <<"l", "a", "r", "g", "e", "2", "x">>
    [] label = "large" -> <<"l", "a", "r", "g", "e">>
    [] label = "medium" -> <<"m", "e", "d", "i", "u", "m">>
    [] label = "small" -> <<"s", "m", "a", "l", "l">>
    [] label = "portrait" -> <<"p", "o", "r", "t", "r", "a", "i", "t">>
    [] label = "landscape" -> <<"l", "a", "n", "d", "s", "c", "a", "p", "e">>
    [] label = "tiny" -> <<"t", "i", "n", "y">>
    [] label = "hd" -> <<"h", "d">>
    [] label = "sd" -> <<"s", "d">>
    [] label = "uhd" -> <<"u", "h", "d">>

\* p lies strictly below root: root's segments are a proper prefix of p's.
IsDescendant(p, root) ==
  LET ps == NormalizeSegs(Split(p), <<>>, FALSE)
      rs == NormalizeSegs(Split(root), <<>>, FALSE)
  IN /\ p # <<>> /\ root # <<>>
     /\ p[1] = "/" /\ root[1] = "/"
     /\ Len(ps) > Len(rs)
     /\ SubSeq(ps, 1, Len(rs)) = rs

RECURSIVE Ancestors(_)
\* A directory and every directory above it: what mkdir -p leaves existing.
Ancestors(dir) ==
  IF PathDirname(dir) = dir \/ dir = <<"/">> \/ dir = <<".">> THEN {dir}
  ELSE {dir} \cup Ancestors(PathDirname(dir))

\* --------------------------------------------------- the tool surface

PhotoSizes ==
  {"original", "large2x", "large", "medium", "small", "portrait", "landscape", "tiny"}

VideoQualities == {"hd", "sd"}

DownloadTools == {"downloadPhoto", "downloadVideo"}

GetTools == {"getPhoto", "getVideo"}

ListTools ==
  {"searchPhotos", "getCuratedPhotos", "searchVideos", "getPopularVideos",
   "getFeaturedCollections", "getCollectionMedia"}

IdResources == {"photo", "video"}

\* z.number().positive(): the id shape of getPhoto, getVideo and the downloads.
SchemaAcceptsId(id) == id > 0

Digits == {"0", "1", "2", "3", "4", "5", "6", "7", "8", "9"}

DigitValue(ch) ==
  CASE ch = "0" -> 0 [] ch = "1" -> 1 [] ch = "2" -> 2 [] ch = "3" -> 3
    [] ch = "4" -> 4 [] ch = "5" -> 5 [] ch = "6" -> 6 [] ch = "7" -> 7
    [] ch = "8" -> 8 [] ch = "9" -> 9

RECURSIVE DigitsValue(_, _)
\* The value of the longest prefix of digits of s, after acc.
DigitsValue(s, acc) ==
  IF s = <<>> \/ Head(s) \notin Digits THEN acc
  ELSE DigitsValue(Tail(s), 10 * acc + DigitValue(Head(s)))

\* parseInt(s, 10): an optional sign, then the longest prefix of digits; NaN
\* when there is no digit there.  What follows the digits is ignored.
ParseInt(s) ==
  LET neg == s # <<>> /\ Head(s) = "-"
      signed == s # <<>> /\ Head(s) \in {"-", "+"}
      rest == IF signed THEN Tail(s) ELSE s
  IN IF rest = <<>> \/ Head(rest) \notin Digits
     THEN [nan |-> TRUE, n |-> 0]
     ELSE [nan |-> FALSE,
           n |-> IF neg THEN 0 - DigitsValue(rest, 0) ELSE DigitsValue(rest, 0)]

\* ------------------------------------------ what the host may send

\* relative_save_path values: a nested file, a path that climbs out, and one
\* written as an absolute path.
RelPaths ==
  { <<"i", "/", "m", ".", "j">>,
    <<".", ".">>,
    <<"/", "m", ".", "j">> }

\* The sizes and qualities the host asks for (each within its enum).
RequestedSizes == {"original", "large"}

RequestedQualities == {"hd"}

\* Numbers given as a tool's id.
ToolIds == {0, 5}

\* Ids written in a resource address.
ResourceIds == { <<"5">>, <<"0">>, <<"x">> }

\* workspacePath arguments of setWorkspacePath: two directories that exist
\* from the start, and the empty string, at which nothing exists.
WorkspaceArgs == { <<"/", "w">>, <<"/", "v">>, <<>> }

ApiKeyArgs == {"key2"}

\* The directories that exist when the process starts.
InitialDirs == { <<"/">>, <<"/", "w">>, <<"/", "v">> }

\* The process environment, as the README's configuration sets it: both
\* PEXELS_API_KEY and WORKSPACE_PATH are given.
Environment == [WORKSPACE_PATH |-> <<"/", "w">>, PEXELS_API_KEY |-> "key1"]

\* ------------------------------------------- the upstream provider

\* A remote URL: whether new URL() accepts it, and its path component.
Url(name, pathname) == [href |-> name, valid |-> TRUE, pathname |-> pathname]

BadUrl(name) == [href |-> name, valid |-> FALSE, pathname |-> <<>>]

\* Photos the provider may return: each a map from some sizes to URLs.
PhotoItems ==
  { [src |-> ("original" :> Url("o", <<"/", "o", ".", "p">>))
             @@ ("large" :> Url("l", <<"/", "l">>)),
     photographer |-> "ann", photographer_url |-> "ann.url"],
    [src |-> ("original" :> Url("b", <<"/", "b">>)),
     photographer |-> "bob", photographer_url |-> "bob.url"],
    [src |-> ("large2x" :> Url("x", <<"/", "x", ".", "p">>)),
     photographer |-> "cy", photographer_url |-> "cy.url"],
    [src |-> ("original" :> BadUrl("bad")),
     photographer |-> "dee", photographer_url |-> "dee.url"] }

\* Videos the provider may return: each a list of quality-tagged files.
VideoItems ==
  { [video_files |-> << [quality |-> "hd", link |-> Url("h", <<"/", "h", ".", "m">>)],
                        [quality |-> "sd", link |-> Url("s", <<"/", "s">>)] >>,
     user |-> [name |-> "ann", url |-> "ann.url"]],
    [video_files |-> << [quality |-> "sd", link |-> Url("s", <<"/", "s">>)],
                        [quality |-> "uhd", link |-> Url("u", <<"/", "u", ".", "m">>)] >>,
     user |-> [name |-> "bob", url |-> "bob.url"]],
    [video_files |-> << >>,
     user |-> [name |-> "cy", url |-> "cy.url"]] }

\* Rate-limit snapshots: absent, or the three header values.  reset is counted
\* in units of 10^6 seconds: 1700 is a time of these years, 9000000 a value
\* no date can hold.
RateLimits ==
  { Null,
    [limit |-> 200, remaining |-> 0, reset |-> 1700],
    [limit |-> 200, remaining |-> 0, reset |-> 9000000] }

\* The failures of a provider request.
ServiceErrors == {"AuthError", "NotFoundError", "RateLimitedError", "UpstreamError"}

\* What a catalog lookup may end with: a {data, rateLimit} envelope, whose data
\* may be empty, or a thrown error.
LookupOutcomes(items) ==
  [kind : {"ok"}, data : items \cup {Null}, rateLimit : RateLimits, message : {""}]
  \cup [kind : {"throw"}, data : {Null}, rateLimit : {Null}, message : ServiceErrors]

\* The bytes the remote host serves at a URL: fixed for the run, of a length
\* that differs from URL to URL.
Payload(url) ==
  CASE url.href = "o" -> <<7, 7, 7>>
    [] url.href = "l" -> <<7, 7>>
    [] url.href = "h" -> <<7>>
    [] OTHER -> << >>

\* What fetch() may end with: a network failure, or a response with a status.
FetchOutcomes ==
  { [kind |-> "throw", ok |-> FALSE, status |-> 0],
    [kind |-> "response", ok |-> FALSE, status |-> 404],
    [kind |-> "response", ok |-> TRUE, status |-> 200] }

\* ------------------------------------------------------------ state

VARIABLES
  workspacePath,  \* the module-level workspacePath; <<>> is ""
  env,            \* the process environment the server was started with
  apiKey,         \* the credential the provider client holds
  dirs,           \* the directories that exist
  files,          \* the files that exist, each with its content
  calls,          \* the invocations in flight, by slot
  started         \* how many invocations the host has issued

vars == <<workspacePath, env, apiKey, dirs, files, calls, started>>

Slots == 1..MaxInFlight

NoArgs == [id |-> 0, variant |-> "", rel |-> <<>>, path |-> <<>>, idText |-> <<>>, key |-> ""]

\* A handler's locals before it has assigned any.  (existed is not a local of
\* the code: it records whether a file was at the final path when the write
\* was issued.)
NoLocals ==
  [wsChecked |-> <<>>, wsJoined |-> <<>>, data |-> Null, rateLimit |-> Null,
   url |-> Null, label |-> "", fullSavePath |-> <<>>, finalPath |-> <<>>,
   status |-> 0, buffer |-> <<>>, existed |-> FALSE]

Idle == [op |-> "idle", pc |-> "idle", a |-> NoArgs, l |-> NoLocals,
         ops |-> <<>>, result |-> Null]

Init ==
  /\ env = Environment
  /\ workspacePath = <<>>
  /\ apiKey = env.PEXELS_API_KEY
  /\ dirs = InitialDirs
  /\ files = << >>
  /\ calls = [c \in Slots |-> Idle]
  /\ started = 0

\* --------------------------------------------------- response text

Block(t, v) == [t |-> t, v |-> v]

NotConfiguredBlock ==
  Block("Workspace path not configured. Please use setWorkspacePath tool first.", <<>>)

\* Whether a Date holds the time: a Date spans 8.64 * 10^15 ms either side of
\* the epoch, which is 8640000 units of 10^6 seconds.
ValidDate(reset) == reset <= 8640000 /\ reset >= 0 - 8640000

\* new Date(rateLimit.reset * 1000).toISOString() throws a RangeError when
\* the Date is invalid; a missing snapshot and a reset of 0 never get there.
RateLimitThrows(rateLimit) ==
  /\ rateLimit # Null
  /\ rateLimit.reset # 0
  /\ ~ValidDate(rateLimit.reset)

\* The rate-limit line a tool appends when the envelope carries a snapshot:
\* remaining, limit, and the reset time, "N/A" for a reset of 0.
RateLimitBlocks(rateLimit) ==
  IF rateLimit = Null THEN <<>>
  ELSE << Block("Rate Limit: ",
                << rateLimit.remaining, rateLimit.limit,
                   IF rateLimit.reset # 0 THEN <<"iso", rateLimit.reset * 1000>>
                   ELSE <<"N/A">> >>) >>

\* The text each handler's catch block opens with.
CatchPrefix(op) ==
  CASE op = "searchPhotos" -> "Error searching photos: "
    [] op = "downloadPhoto" -> "Error downloading photo: "
    [] op = "downloadVideo" -> "Error downloading video: "
    [] op = "getCuratedPhotos" -> "Error getting curated photos: "
    [] op = "getPhoto" -> "Error getting photo: "
    [] op = "searchVideos" -> "Error searching videos: "
    [] op = "getPopularVideos" -> "Error getting popular videos: "
    [] op = "getVideo" -> "Error getting video: "
    [] op = "getFeaturedCollections" -> "Error getting featured collections: "
    [] op = "getCollectionMedia" -> "Error getting collection media: "
    [] op = "photo" -> "Error retrieving photo with ID "
    [] op = "video" -> "Error retrieving video with ID "
    [] op = "collection" -> "Error retrieving collection with ID "
    [] op = "setApiKey" -> "Error setting API key: "
    [] op = "setWorkspacePath" -> "Error setting workspace path: "

\* A tool answers {content: [...]}, a resource {contents: [...]}.
EnvelopeKind(op) ==
  IF op \in IdResources \cup {"collection"} THEN "contents" ELSE "content"

Envelope(op, blocks) == [kind |-> EnvelopeKind(op), blocks |-> blocks]

\* A try block that ends after the first await would leave the later steps
\* outside it.
TryCoversFirstAwaitOnly(op, step) == step \in {"lookup", "access"}

\* Whether the handler's try block encloses the step: every handler body is
\* one try statement, so each step of each handler is inside it.
TryCovers(op, step) == TRUE

\* What the caller gets when a step of the handler throws.
Thrown(op, step, message) ==
  IF TryCovers(op, step)
  THEN Envelope(op, << Block(CatchPrefix(op), <<message>>) >>)
  ELSE [kind |-> "escaped", blocks |-> << Block("uncaught", <<message>>) >>]

\* What a tool returns once its content is built: the content and the
\* rate-limit line, or the answer of its catch block when building that line
\* throws.
Answer(op, blocks, rateLimit) ==
  IF RateLimitThrows(rateLimit)
  THEN Thrown(op, "rateLimit", "Invalid time value")
  ELSE Envelope(op, blocks \o RateLimitBlocks(rateLimit))

\* ------------------------------------------------ starting a call

\* No handler has returned an answer that is still to be sent: the answer goes
\* out as soon as the handler returns, before any other handler runs on.
NoneDone == \A d \in Slots : calls[d].pc # "done"

\* The calls the model lets overlap: any number of setWorkspacePath calls, and
\* with them at most one call of another tool or resource.
MayOverlap(op) ==
  \/ op = "setWorkspacePath"
  \/ \A d \in Slots : calls[d].op \in {"idle", "setWorkspacePath"}

\* The slot a new invocation of op takes: the lowest idle one.
FreeSlot(c, op) ==
  /\ started < MaxCalls
  /\ NoneDone
  /\ MayOverlap(op)
  /\ calls[c].pc = "idle"
  /\ \A d \in Slots : d < c => calls[d].pc # "idle"

\* An entry of a call's log of the outbound operations it has issued.
Op(e, target) == [e |-> e, target |-> target]

Begin(c, op, a) == [Idle EXCEPT !.op = op, !.a = a]

Finish(call, result) == [call EXCEPT !.pc = "done", !.result = result]

\* The argument shape failed: the handler is not run.
Rejected(call) == Finish(call, [kind |-> "rejected", blocks |-> <<>>])

\* A handler without the precondition check.
NeverNotConfigured(ws) == FALSE

\* if (!workspacePath): the empty string is the one falsy path.
NotConfigured(ws) == ws = <<>>

\* downloadPhoto / downloadVideo up to the first await: the precondition
\* check, then the catalog lookup is issued.
StartDownload(c, tool, id, variant, rel) ==
  /\ FreeSlot(c, tool)
  /\ LET call == Begin(c, tool, [NoArgs EXCEPT !.id = id, !.variant = variant, !.rel = rel])
     IN calls' = [calls EXCEPT ![c] =
          IF ~SchemaAcceptsId(id) THEN Rejected(call)
          ELSE IF NotConfigured(workspacePath)
          THEN Finish([call EXCEPT !.l.wsChecked = workspacePath],
                      Envelope(tool, <<NotConfiguredBlock>>))
          ELSE [call EXCEPT !.pc = "lookup",
                            !.l.wsChecked = workspacePath,
                            !.ops = <<Op("lookup", <<>>)>>]]
  /\ started' = started + 1
  /\ UNCHANGED <<workspacePath, env, apiKey, dirs, files>>

\* getPhoto / getVideo up to the await of the lookup.
StartGet(c, tool, id) ==
  /\ FreeSlot(c, tool)
  /\ LET call == Begin(c, tool, [NoArgs EXCEPT !.id = id])
     IN calls' = [calls EXCEPT ![c] =
          IF ~SchemaAcceptsId(id) THEN Rejected(call)
          ELSE [call EXCEPT !.pc = "lookup", !.ops = <<Op("lookup", <<>>)>>]]
  /\ started' = started + 1
  /\ UNCHANGED <<workspacePath, env, apiKey, dirs, files>>

\* The search and listing tools up to the await of their query.
StartList(c, tool) ==
  /\ FreeSlot(c, tool)
  /\ calls' = [calls EXCEPT ![c] =
       [Begin(c, tool, NoArgs) EXCEPT !.pc = "lookup", !.ops = <<Op("lookup", <<>>)>>]]
  /\ started' = started + 1
  /\ UNCHANGED <<workspacePath, env, apiKey, dirs, files>>

\* The photo and video resources up to the await: the id of the address is
\* parsed, and a NaN ends the read.
StartIdResource(c, res, idText) ==
  /\ FreeSlot(c, res)
  /\ LET call == Begin(c, res, [NoArgs EXCEPT !.idText = idText])
         parsed == ParseInt(idText)
     IN calls' = [calls EXCEPT ![c] =
          IF parsed.nan
          THEN Finish(call, Envelope(res, << Block("Invalid ID: ", <<res, idText>>) >>))
          ELSE [call EXCEPT !.pc = "lookup", !.a.id = parsed.n, !.ops = <<Op("lookup", <<>>)>>]]
  /\ started' = started + 1
  /\ UNCHANGED <<workspacePath, env, apiKey, dirs, files>>

\* The collection resource up to the await: the id is passed on as text.
StartCollectionResource(c, idText) ==
  /\ FreeSlot(c, "collection")
  /\ calls' = [calls EXCEPT ![c] =
       [Begin(c, "collection", [NoArgs EXCEPT !.idText = idText])
          EXCEPT !.pc = "lookup", !.ops = <<Op("lookup", <<>>)>>]]
  /\ started' = started + 1
  /\ UNCHANGED <<workspacePath, env, apiKey, dirs, files>>

\* setApiKey: no await; the client's credential is replaced.
SetApiKey(c, key) ==
  /\ FreeSlot(c, "setApiKey")
  /\ apiKey' = key
  /\ calls' = [calls EXCEPT ![c] =
       Finish(Begin(c, "setApiKey", [NoArgs EXCEPT !.key = key]),
              Envelope("setApiKey", << Block("API key set successfully", <<>>) >>))]
  /\ started' = started + 1
  /\ UNCHANGED <<workspacePath, env, dirs, files>>

\* setWorkspacePath up to the await of fs.access.
StartSetWorkspacePath(c, path) ==
  /\ FreeSlot(c, "setWorkspacePath")
  /\ calls' = [calls EXCEPT ![c] =
       [Begin(c, "setWorkspacePath", [NoArgs EXCEPT !.path = path])
          EXCEPT !.pc = "access", !.ops = <<Op("access", path)>>]]
  /\ started' = started + 1
  /\ UNCHANGED <<workspacePath, env, apiKey, dirs, files>>

\* ------------------------------------------------ the download steps

\* availableSizes[size]: undefined for a size the photo does not carry.
PhotoUrl(src, size) == IF size \in DOMAIN src THEN src[size] ELSE Null

\* A resolution that always takes the original's URL.
ResolvePhotoFromOriginal(photo, size) ==
  [found |-> PhotoUrl(photo.src, "original") # Null,
   url |-> PhotoUrl(photo.src, "original"), label |-> size]

\* The URL and the size label downloadPhoto settles on.
ResolvePhoto(photo, size) ==
  LET availableSizes == photo.src
      first == IF PhotoUrl(availableSizes, size) # Null
               THEN PhotoUrl(availableSizes, size)
               ELSE PhotoUrl(availableSizes, "original")
      imageUrl == IF first = Null THEN PhotoUrl(availableSizes, "original") ELSE first
      actualSize == IF first = Null THEN "original" ELSE size
  IN [found |-> imageUrl # Null, url |-> imageUrl, label |-> actualSize]

\* The file downloadVideo settles on: the first of the wanted quality, else
\* the first of the list.
ResolveVideo(video, quality) ==
  LET fs == video.video_files
      hits == { i \in 1..Len(fs) : fs[i].quality = quality }
      videoFile == IF hits # {} THEN fs[CHOOSE i \in hits : \A k \in hits : i <= k]
                   ELSE IF fs # <<>> THEN fs[1]
                   ELSE Null
  IN IF videoFile = Null
     THEN [found |-> FALSE, url |-> Null, label |-> ""]
     ELSE [found |-> TRUE, url |-> videoFile.link, label |-> videoFile.quality]

Resolve(tool, data, variant) ==
  IF tool = "downloadPhoto" THEN ResolvePhoto(data, variant)
  ELSE ResolveVideo(data, variant)

DownloadItems(tool) == IF tool = "downloadPhoto" THEN PhotoItems ELSE VideoItems

NotFoundBlock(tool, id) ==
  IF tool \in {"downloadPhoto", "getPhoto"}
  THEN Block("Photo with ID not found.", <<id>>)
  ELSE Block("Video with ID not found.", <<id>>)

NoUrlBlock(tool, id) ==
  IF tool = "downloadPhoto"
  THEN Block("Could not find any download URL for photo ID ", <<id>>)
  ELSE Block("No video file found for ID ", <<id>>)

\* path.join(workspacePath, relative_save_path)
FullSavePath(ws, rel) == PathJoin(ws, rel)

\* A handler that creates a directory at the save path itself.
MkdirTargetIsSavePath(call) == call.l.fullSavePath

\* The directory the handler creates: path.dirname(fullSavePath).
MkdirTarget(call) == PathDirname(call.l.fullSavePath)

\* The lookup has returned: not-found check, variant resolution, and the
\* save path from the workspacePath of this moment; mkdir is issued.
DownloadLookupDone(c, out) ==
  /\ NoneDone
  /\ calls[c].pc = "lookup" /\ calls[c].op \in DownloadTools
  /\ LET call == calls[c]
         tool == call.op
         r == Resolve(tool, out.data, call.a.variant)
         joined == [call EXCEPT !.l.data = out.data,
                                !.l.rateLimit = out.rateLimit,
                                !.l.url = r.url,
                                !.l.label = r.label,
                                !.l.wsJoined = workspacePath,
                                !.l.fullSavePath = FullSavePath(workspacePath, call.a.rel)]
     IN calls' = [calls EXCEPT ![c] =
          IF out.kind = "throw" THEN Finish(call, Thrown(tool, "lookup", out.message))
          ELSE IF out.data = Null
          THEN Finish(call, Envelope(tool, << NotFoundBlock(tool, call.a.id) >>))
          ELSE IF ~r.found
          THEN Finish([call EXCEPT !.l.data = out.data],
                      Envelope(tool, << NoUrlBlock(tool, call.a.id) >>))
          ELSE [joined EXCEPT !.pc = "mkdir",
                              !.ops = Append(call.ops, Op("mkdir", MkdirTarget(joined)))]]
  /\ UNCHANGED <<workspacePath, env, apiKey, dirs, files, started>>

DefaultExt(tool) ==
  IF tool = "downloadPhoto" THEN <<".", "j", "p", "g">> ELSE <<".", "m", "p", "4">>

\* path.extname(new URL(url).pathname) || default
FileExt(tool, url) ==
  IF PathExtname(url.pathname) # <<>> THEN PathExtname(url.pathname)
  ELSE DefaultExt(tool)

\* path.basename(rel, path.extname(rel)) + `_${label}${ext}`
FileName(rel, label, ext) ==
  PathBasename(rel, PathExtname(rel)) \o <<"_">> \o Chars(label) \o ext

\* A download's final path as computed from a root read afresh, where the
\* handler uses the fullSavePath it holds.
FinalPathFromCurrentRoot(call, fileName) ==
  PathJoin(PathDirname(FullSavePath(workspacePath, call.a.rel)), fileName)

\* path.join(path.dirname(fullSavePath), fileName), fullSavePath being the
\* constant the handler computed before it awaited mkdir.
FinalPath(call, fileName) == PathJoin(PathDirname(call.l.fullSavePath), fileName)

\* mkdir {recursive: true} succeeds unless a file stands where a directory
\* is needed.
CanMkdir(dir) == \A d \in Ancestors(dir) : d \notin DOMAIN files

\* mkdir has ended: the directory and its missing ancestors exist; then the
\* extension and the final path are computed and the fetch is issued.
DownloadMkdirDone(c, fsOk) ==
  /\ NoneDone
  /\ calls[c].pc = "mkdir"
  /\ LET call == calls[c]
         tool == call.op
         dir == call.ops[Len(call.ops)].target
         fileName == FileName(call.a.rel, call.l.label, FileExt(tool, call.l.url))
         named == [call EXCEPT !.l.finalPath = FinalPath(call, fileName)]
     IN IF ~fsOk \/ ~CanMkdir(dir)
        THEN /\ calls' = [calls EXCEPT ![c] =
                  Finish(call, Thrown(tool, "mkdir", IF ~fsOk THEN "EACCES" ELSE "EEXIST"))]
             /\ dirs' = dirs
        ELSE /\ dirs' = dirs \cup Ancestors(dir)
             /\ calls' = [calls EXCEPT ![c] =
                  IF ~call.l.url.valid
                  THEN Finish(call, Thrown(tool, "url", "Invalid URL"))
                  ELSE [named EXCEPT !.pc = "fetch",
                                     !.ops = Append(call.ops, Op("fetch", call.l.url))]]
  /\ UNCHANGED <<workspacePath, env, apiKey, files, started>>

\* A response whose status is taken for a success whatever it is.
ResponseOkAlways(out) == TRUE

\* imageResponse.ok
ResponseOk(out) == out.ok

\* fetch has ended: a failure or a non-success status ends the call; else the
\* body is asked for.
DownloadFetchDone(c, out) ==
  /\ NoneDone
  /\ calls[c].pc = "fetch"
  /\ LET call == calls[c]
         tool == call.op
     IN calls' = [calls EXCEPT ![c] =
          IF out.kind = "throw" THEN Finish(call, Thrown(tool, "fetch", "network"))
          ELSE IF ~ResponseOk(out)
          THEN Finish([call EXCEPT !.l.status = out.status],
                      Thrown(tool, "status", <<"Failed to download: ", out.status>>))
          ELSE [call EXCEPT !.pc = "body", !.l.status = out.status]]
  /\ UNCHANGED <<workspacePath, env, apiKey, dirs, files, started>>

\* arrayBuffer() has ended: the whole payload is in the buffer and the write
\* is issued.
DownloadBodyDone(c, bodyOk) ==
  /\ NoneDone
  /\ calls[c].pc = "body"
  /\ LET call == calls[c]
     IN calls' = [calls EXCEPT ![c] =
          IF ~bodyOk THEN Finish(call, Thrown(call.op, "body", "aborted"))
          ELSE [call EXCEPT !.pc = "write",
                            !.l.buffer = Payload(call.l.url),
                            !.l.existed = call.l.finalPath \in DOMAIN files,
                            !.ops = Append(call.ops, Op("write", call.l.finalPath))]]
  /\ UNCHANGED <<workspacePath, env, apiKey, dirs, files, started>>

\* A write that refuses a name already taken (the flag "wx").
CanWriteNewOnly(path) ==
  path \notin dirs /\ path \notin DOMAIN files /\ PathDirname(path) \in dirs

\* writeFile succeeds when the directory is there and the name is not a
\* directory's; a file already there is replaced.
CanWrite(path) == path \notin dirs /\ PathDirname(path) \in dirs

\* The error of a write the filesystem refuses because of what is, or is not,
\* at the path.
WriteRefusal(path) ==
  IF path \in dirs THEN "EISDIR"
  ELSE IF path \in DOMAIN files THEN "EEXIST"
  ELSE "ENOENT"

\* The content blocks of a finished download, before the rate-limit line.
DownloadedBlocks(call) ==
  IF call.op = "downloadPhoto"
  THEN << Block("Photo downloaded successfully to: ", <<call.l.finalPath>>),
          Block("Photo ID, Size, File size", <<call.a.id, call.l.label, Len(call.l.buffer)>>),
          Block("Attribution: Photo by",
                <<call.l.data.photographer, call.l.data.photographer_url>>) >>
  ELSE << Block("Video downloaded successfully to: ", <<call.l.finalPath>>),
          Block("Video ID, Quality, File size", <<call.a.id, call.l.label, Len(call.l.buffer)>>),
          Block("Attribution: Video by",
                <<call.l.data.user.name, call.l.data.user.url>>) >>

\* writeFile has ended: the file holds the buffer and the result is built.
DownloadWriteDone(c, fsOk) ==
  /\ NoneDone
  /\ calls[c].pc = "write"
  /\ LET call == calls[c]
         path == call.ops[Len(call.ops)].target
     IN IF ~fsOk \/ ~CanWrite(path)
        THEN /\ calls' = [calls EXCEPT ![c] =
                  Finish(call, Thrown(call.op, "write", IF ~fsOk THEN "EIO" ELSE WriteRefusal(path)))]
             /\ files' = files
        ELSE /\ files' = [p \in DOMAIN files \cup {path} |->
                            IF p = path THEN call.l.buffer ELSE files[p]]
             /\ calls' = [calls EXCEPT ![c] =
                  Finish(call, Answer(call.op, DownloadedBlocks(call), call.l.rateLimit))]
  /\ UNCHANGED <<workspacePath, env, apiKey, dirs, started>>

\* --------------------------------------- lookups, lists and resources

\* What a lookup by id returns as data to getPhoto, getVideo and the
\* resources, which pass the item on without reading its variants.
GetItems(tool) ==
  IF tool \in {"getPhoto", "photo"}
  THEN { [src |-> ("original" :> Url("o", <<"/", "o", ".", "p">>)),
          photographer |-> "bob", photographer_url |-> "bob.url"] }
  ELSE IF tool \in {"getVideo", "video"}
  THEN { [video_files |-> << >>, user |-> [name |-> "cy", url |-> "cy.url"]] }
  ELSE { [media |-> <<"entry">>] }

\* What a search or listing returns as data.
ListItems == { [total_results |-> 1, entries |-> <<"entry">>] }

\* getPhoto / getVideo after the lookup: not-found check, then the item as
\* JSON and the rate-limit line.
GetLookupDone(c, out) ==
  /\ NoneDone
  /\ calls[c].pc = "lookup" /\ calls[c].op \in GetTools
  /\ LET call == calls[c]
         tool == call.op
         got == [call EXCEPT !.l.data = out.data, !.l.rateLimit = out.rateLimit]
     IN calls' = [calls EXCEPT ![c] =
          IF out.kind = "throw" THEN Finish(call, Thrown(tool, "lookup", out.message))
          ELSE IF out.data = Null
          THEN Finish(got, Envelope(tool, << NotFoundBlock(tool, call.a.id) >>))
          ELSE Finish(got, Answer(tool,
                 << Block("Retrieved", <<call.a.id>>), Block("json", <<out.data>>) >>,
                 out.rateLimit))]
  /\ UNCHANGED <<workspacePath, env, apiKey, dirs, files, started>>

\* A search or listing tool after its query: the summary line reads a field
\* of the data (which throws on empty data), then the JSON and the rate-limit
\* line.
ListLookupDone(c, out) ==
  /\ NoneDone
  /\ calls[c].pc = "lookup" /\ calls[c].op \in ListTools
  /\ LET call == calls[c]
         tool == call.op
         got == [call EXCEPT !.l.data = out.data, !.l.rateLimit = out.rateLimit]
     IN calls' = [calls EXCEPT ![c] =
          IF out.kind = "throw" THEN Finish(call, Thrown(tool, "lookup", out.message))
          ELSE IF out.data = Null
          THEN Finish(got, Thrown(tool, "render", "TypeError"))
          ELSE Finish(got, Answer(tool,
                 << Block("Found or Retrieved", <<Len(out.data.entries)>>),
                    Block("json", <<out.data>>) >>,
                 out.rateLimit))]
  /\ UNCHANGED <<workspacePath, env, apiKey, dirs, files, started>>

\* A resource read after its lookup: the whole envelope as JSON, whatever its
\* data is.
ResourceLookupDone(c, out) ==
  /\ NoneDone
  /\ calls[c].pc = "lookup" /\ calls[c].op \in IdResources \cup {"collection"}
  /\ LET call == calls[c]
         res == call.op
         got == [call EXCEPT !.l.data = out.data, !.l.rateLimit = out.rateLimit]
     IN calls' = [calls EXCEPT ![c] =
          IF out.kind = "throw"
          THEN Finish(call, Thrown(res, "lookup", <<call.a.idText, out.message>>))
          ELSE Finish(got, Envelope(res,
                 << Block("json", <<[data |-> out.data, rateLimit |-> out.rateLimit]>>) >>))]
  /\ UNCHANGED <<workspacePath, env, apiKey, dirs, files, started>>

\* ------------------------------------------------- setWorkspacePath

\* A check that lets every path through.
ExistsAlways(path) == TRUE

\* fs.access(path) succeeds when something exists at the path.
Exists(path) == path \in dirs \/ path \in DOMAIN files

\* A handler that stores the directory above the path it checked.
AcceptedDirname(path) == PathDirname(path)

\* What setWorkspacePath stores once the path passed the check.
AcceptedWorkspace(path) == path

\* fs.access has ended: on success the path becomes the workspace root and the
\* answer names it; on failure the catch block answers and nothing is stored.
AccessDone(c) ==
  /\ NoneDone
  /\ calls[c].pc = "access"
  /\ LET call == calls[c]
         newWorkspacePath == call.a.path
     IN IF Exists(newWorkspacePath)
        THEN /\ workspacePath' = AcceptedWorkspace(newWorkspacePath)
             /\ calls' = [calls EXCEPT ![c] =
                  Finish(call, Envelope("setWorkspacePath",
                         << Block("Workspace path set to: ", <<workspacePath'>>) >>))]
        ELSE /\ workspacePath' = workspacePath
             /\ calls' = [calls EXCEPT ![c] =
                  Finish(call, Thrown("setWorkspacePath", "access", "ENOENT"))]
  /\ UNCHANGED <<env, apiKey, dirs, files, started>>

\* The answer has gone to the caller: the invocation is over.
Respond(c) ==
  /\ calls[c].pc = "done"
  /\ calls' = [calls EXCEPT ![c] = Idle]
  /\ UNCHANGED <<workspacePath, env, apiKey, dirs, files, started>>

\* ------------------------------------------------------ the system

Next ==
  \E c \in Slots :
    \/ \E tool \in {"downloadPhoto"}, id \in ToolIds, v \in RequestedSizes, rel \in RelPaths :
         StartDownload(c, tool, id, v, rel)
    \/ \E tool \in {"downloadVideo"}, id \in ToolIds, v \in RequestedQualities, rel \in RelPaths :
         StartDownload(c, tool, id, v, rel)
    \/ \E tool \in GetTools, id \in ToolIds : StartGet(c, tool, id)
    \/ \E tool \in ListTools : StartList(c, tool)
    \/ \E res \in IdResources, idText \in ResourceIds : StartIdResource(c, res, idText)
    \/ \E idText \in ResourceIds : StartCollectionResource(c, idText)
    \/ \E key \in ApiKeyArgs : SetApiKey(c, key)
    \/ \E path \in WorkspaceArgs : StartSetWorkspacePath(c, path)
    \/ \E out \in LookupOutcomes(DownloadItems(calls[c].op)) : DownloadLookupDone(c, out)
    \/ \E fsOk \in BOOLEAN : DownloadMkdirDone(c, fsOk)
    \/ \E out \in FetchOutcomes : DownloadFetchDone(c, out)
    \/ \E bodyOk \in BOOLEAN : DownloadBodyDone(c, bodyOk)
    \/ \E fsOk \in BOOLEAN : DownloadWriteDone(c, fsOk)
    \/ \E out \in LookupOutcomes(GetItems(calls[c].op)) : GetLookupDone(c, out)
    \/ \E out \in LookupOutcomes(ListItems) : ListLookupDone(c, out)
    \/ \E out \in LookupOutcomes(GetItems(calls[c].op)) : ResourceLookupDone(c, out)
    \/ AccessDone(c)
    \/ Respond(c)

Spec == Init /\ [][Next]_vars

\* ------------------------------------------------------ properties

\* The download handler ran to its last line and answered with the success
\* blocks.
DownloadSucceeded(call) ==
  /\ call.op \in DownloadTools
  /\ call.pc = "done"
  /\ call.result.kind = "content"
  /\ call.result.blocks[1].t \in
       {"Photo downloaded successfully to: ", "Video downloaded successfully to: "}

\* The download handler answered that the item has no URL to download.
DownloadFoundNoUrl(call) ==
  /\ call.op \in DownloadTools
  /\ call.pc = "done"
  /\ call.result = Envelope(call.op, << NoUrlBlock(call.op, call.a.id) >>)

\* The variants the fetched item carries.
VariantsOf(call) ==
  IF call.op = "downloadPhoto" THEN DOMAIN call.l.data.src
  ELSE { call.l.data.video_files[i].quality : i \in 1..Len(call.l.data.video_files) }

\* The URLs the fetched item gives for a variant.
VariantUrls(call, label) ==
  IF call.op = "downloadPhoto"
  THEN IF label \in DOMAIN call.l.data.src THEN {call.l.data.src[label]} ELSE {}
  ELSE { call.l.data.video_files[i].link :
           i \in { k \in 1..Len(call.l.data.video_files) :
                     call.l.data.video_files[k].quality = label } }

\* The variant a download falls back to: a photo's original, a video's first
\* file.
DefaultVariant(call) ==
  IF call.op = "downloadPhoto" THEN "original"
  ELSE call.l.data.video_files[1].quality

\* The URL the call asked fetch for.
FetchedUrl(call) == call.ops[3].target

\* The label the success answer reports.
ReportedLabel(call) == call.result.blocks[2].v[2]

\* C1: the final path of every successful download lies below the workspace
\* root the download read, whatever relative_save_path the caller gave.
C1_FinalPathInsideWorkspace ==
  \A c \in Slots :
    DownloadSucceeded(calls[c]) =>
      IsDescendant(calls[c].l.finalPath, calls[c].l.wsJoined)

\* C2: a download invoked (with a well-formed id) while workspacePath is unset
\* ends at once with the not-configured answer, having issued no lookup, no
\* fetch, no mkdir and no write.
C2_UnsetWorkspaceEndsBeforeAnyIO ==
  \A c \in Slots :
    ( /\ calls[c].op \in DownloadTools
      /\ SchemaAcceptsId(calls[c].a.id)
      /\ calls[c].l.wsChecked = <<>> ) =>
        /\ calls[c].pc = "done"
        /\ calls[c].result = Envelope(calls[c].op, <<NotConfiguredBlock>>)
        /\ calls[c].ops = <<>>

\* A download was invoked with the workspace unset and got the not-configured
\* answer.
C2_Witness ==
  \E c \in Slots :
    /\ calls[c].op \in DownloadTools
    /\ SchemaAcceptsId(calls[c].a.id)
    /\ calls[c].pc = "done"
    /\ workspacePath = <<>>
    /\ calls[c].l.wsChecked = <<>>
    /\ calls[c].result.blocks = <<NotConfiguredBlock>>

\* C3: when the requested variant is absent from the fetched item, a successful
\* download reports the item's default variant as the one used, and the file
\* name carries that variant, not the requested one.
C3_SubstitutedVariantIsReported ==
  \A c \in Slots :
    ( /\ DownloadSucceeded(calls[c])
      /\ calls[c].a.variant \notin VariantsOf(calls[c]) ) =>
        /\ ReportedLabel(calls[c]) = DefaultVariant(calls[c])
        /\ LastSeg(calls[c].l.finalPath) =
             FileName(calls[c].a.rel, DefaultVariant(calls[c]),
                      FileExt(calls[c].op, calls[c].l.url))

\* C4: in every successful download the variant reported as used is one the
\* fetched item carries and the URL fetched is that variant's; and a download
\* ends for lack of a URL only when the item carries no variant at all.
C4_VariantUsedIsOnTheItem ==
  \A c \in Slots :
    /\ DownloadSucceeded(calls[c]) =>
         /\ ReportedLabel(calls[c]) \in VariantsOf(calls[c])
         /\ FetchedUrl(calls[c]) \in VariantUrls(calls[c], ReportedLabel(calls[c]))
    /\ DownloadFoundNoUrl(calls[c]) => VariantsOf(calls[c]) = {}

\* C5: with WORKSPACE_PATH given in the environment, no download ends with the
\* not-configured answer.
C5_EnvironmentRootInEffect ==
  env.WORKSPACE_PATH # <<>> =>
    \A c \in Slots :
      (calls[c].op \in DownloadTools /\ calls[c].pc = "done") =>
        calls[c].result # Envelope(calls[c].op, <<NotConfiguredBlock>>)

\* The directory a download would create and write into, had it built its
\* save path from the root ws.
TargetDirUnder(ws, call) == PathDirname(FullSavePath(ws, call.a.rel))

\* Every mkdir and every write the call has issued is aimed at the directory
\* its save path has under the root ws.
AimedUnder(ws, call) ==
  \A i \in 1..Len(call.ops) :
    /\ call.ops[i].e = "mkdir" => call.ops[i].target = TargetDirUnder(ws, call)
    /\ call.ops[i].e = "write" =>
         PathDirname(call.ops[i].target) = TargetDirUnder(ws, call)

\* C6 (as stated): a download that passed its precondition check creates its
\* directory and writes its file under the root it read at that check, also
\* when a setWorkspacePath call completes while the download is in flight.
C6_RootOfThePreconditionCheck ==
  \A c \in Slots :
    calls[c].op \in DownloadTools => AimedUnder(calls[c].l.wsChecked, calls[c])

\* C6 (amended): a download creates its directory and writes its file under
\* the root that was current when its lookup returned and it built its save
\* path; a setWorkspacePath call that completes after that moment changes
\* neither, and the file of a successful download is at that place.
C6_RootOfThePathConstruction ==
  \A c \in Slots :
    calls[c].op \in DownloadTools =>
      /\ AimedUnder(calls[c].l.wsJoined, calls[c])
      /\ DownloadSucceeded(calls[c]) =>
           /\ calls[c].l.finalPath \in DOMAIN files
           /\ PathDirname(calls[c].l.finalPath) =
                TargetDirUnder(calls[c].l.wsJoined, calls[c])

\* A download succeeded although the root was changed after it had built its
\* save path.
C6_Witness ==
  \E c \in Slots :
    /\ DownloadSucceeded(calls[c])
    /\ workspacePath # calls[c].l.wsJoined
    /\ TargetDirUnder(workspacePath, calls[c]) # TargetDirUnder(calls[c].l.wsJoined, calls[c])

\* C7: when setWorkspacePath's check of a path ends, then if something exists
\* at the path the workspace root becomes that path and the answer is the
\* success text with the path in it; if nothing exists there the answer is the
\* failure text and the workspace root is what it was.
C7_SetWorkspacePath ==
  [][ \A c \in Slots :
        (calls[c].pc = "access" /\ calls'[c].pc = "done") =>
          IF calls[c].a.path \in dirs \cup DOMAIN files
          THEN /\ workspacePath' = calls[c].a.path
               /\ calls'[c].result =
                    [kind |-> "content",
                     blocks |-> << Block("Workspace path set to: ", <<calls[c].a.path>>) >>]
          ELSE /\ workspacePath' = workspacePath
               /\ calls'[c].result.kind = "content"
               /\ calls'[c].result.blocks[1].t = "Error setting workspace path: "
    ]_vars

\* setWorkspacePath failed on a path at which nothing exists, after an earlier
\* call had set a root, and the root is still set.
C7_Witness ==
  \E c \in Slots :
    /\ calls[c].op = "setWorkspacePath"
    /\ calls[c].pc = "done"
    /\ calls[c].a.path \notin dirs \cup DOMAIN files
    /\ calls[c].result.blocks[1].t = "Error setting workspace path: "
    /\ workspacePath # <<>>

\* C8: every handler that ran answers with its envelope ({content} for a tool,
\* {contents} for a resource) holding at least one text block; a failure of
\* any step is in that envelope and nothing escapes the handler.  (A call whose
\* arguments fail the declared shape never reaches its handler.)
C8_EveryAnswerIsAnEnvelope ==
  \A c \in Slots :
    (calls[c].pc = "done" /\ calls[c].result.kind # "rejected") =>
      /\ calls[c].result.kind = EnvelopeKind(calls[c].op)
      /\ Len(calls[c].result.blocks) >= 1

\* A download failed at a step after its lookup and answered with the text of
\* its catch block.
C8_Witness ==
  \E c \in Slots :
    /\ calls[c].op \in DownloadTools
    /\ calls[c].pc = "done"
    /\ Len(calls[c].ops) >= 2
    /\ calls[c].result.kind = "content"
    /\ calls[c].result.blocks[1].t = CatchPrefix(calls[c].op)

\* C9: a photo or video resource read looks an id up only if getPhoto /
\* getVideo accept that id, and when the lookup yields no item it does not
\* render the empty answer as an item but reports not-found.
C9_ResourceReadsLikeTools ==
  \A c \in Slots :
    (calls[c].op \in IdResources /\ calls[c].ops # <<>>) =>
      /\ SchemaAcceptsId(calls[c].a.id)
      /\ (calls[c].pc = "done" /\ calls[c].l.data = Null) =>
           calls[c].result.blocks[1].t # "json"

\* C10: the file of a successful download is at
\* <root>/<dirname(rel)>/<basename(rel) without its extension>_<label><ext>.
C10_FileLayout ==
  \A c \in Slots :
    DownloadSucceeded(calls[c]) =>
      calls[c].l.finalPath =
        PathJoin(PathJoin(calls[c].l.wsJoined, PathDirname(calls[c].a.rel)),
                 FileName(calls[c].a.rel, calls[c].l.label,
                          FileExt(calls[c].op, calls[c].l.url)))

\* The variant of the item whose URL a download with these locals fetches:
\* for a photo the requested size when the item carries it, else the
\* original; for a video the quality of the file taken.
UsedVariant(call) ==
  IF call.op = "downloadPhoto"
  THEN IF call.a.variant \in DOMAIN call.l.data.src THEN call.a.variant ELSE "original"
  ELSE call.l.label

\* The call as it would stand after its lookup had it been for this item and
\* this requested variant, root and relative_save_path being the same.
SameRequestFor(call, item, variant) ==
  LET r == Resolve(call.op, item, variant)
  IN [call EXCEPT !.a.variant = variant, !.l.data = item,
                  !.l.url = r.url, !.l.label = r.label]

\* The final path the handler computes from a call's locals.
FinalPathOf(call) ==
  FinalPath(call, FileName(call.a.rel, call.l.label, FileExt(call.op, call.l.url)))

\* What the host may ask a download tool for.
RequestedVariants(tool) ==
  IF tool = "downloadPhoto" THEN RequestedSizes ELSE RequestedQualities

\* C11: a successful download's final path is the final path of no download
\* with the same root and relative_save_path whose variant used differs.
C11_VariantsNeverShareAFile ==
  \A c \in Slots :
    DownloadSucceeded(calls[c]) =>
      \A item \in DownloadItems(calls[c].op), v \in RequestedVariants(calls[c].op) :
        LET other == SameRequestFor(calls[c], item, v)
        IN ( /\ Resolve(calls[c].op, item, v).found
             /\ other.l.url.valid
             /\ UsedVariant(other) # UsedVariant(calls[c]) ) =>
               FinalPathOf(other) # calls[c].l.finalPath

\* C12: the final path of a download is fixed by its arguments, the root and
\* the lookup's answer, so an identical call writes to the same path; and a
\* download whose final path is already a file is not refused for that: it
\* writes to that very path, and when it succeeds the file holds its payload.
C12_RepeatedDownloadOverwrites ==
  \A c \in Slots :
    LET call == calls[c]
    IN (call.op \in DownloadTools /\ call.pc = "done" /\ Len(call.ops) = 4) =>
         /\ call.l.fullSavePath = FullSavePath(call.l.wsJoined, call.a.rel)
         /\ call.l.finalPath =
              FinalPathOf(SameRequestFor(call, call.l.data, call.a.variant))
         /\ call.ops[4].target = call.l.finalPath
         /\ call.l.existed =>
              /\ call.result.blocks[1].t = CatchPrefix(call.op) =>
                   call.result.blocks[1].v \in {<<"EIO">>, <<"Invalid time value">>}
              /\ DownloadSucceeded(call) =>
                   /\ call.l.finalPath \in DOMAIN files
                   /\ files[call.l.finalPath] = call.l.buffer

\* A download succeeded whose final path was already a file when it wrote.
C12_Witness ==
  \E c \in Slots :
    /\ calls[c].op = "downloadPhoto"
    /\ DownloadSucceeded(calls[c])
    /\ calls[c].l.existed
    /\ files[calls[c].l.finalPath] = calls[c].l.buffer

\* C13: when the requested variant is on the item, a successful download's
\* file is named <base>_<that variant><ext>, the URL fetched is that variant's,
\* the file holds the whole payload served at that URL, and the size reported
\* is the length of that payload.
C13_RequestedVariantIsDelivered ==
  \A c \in Slots :
    LET call == calls[c]
    IN (DownloadSucceeded(call) /\ call.a.variant \in VariantsOf(call)) =>
         /\ FetchedUrl(call) \in VariantUrls(call, call.a.variant)
         /\ LastSeg(call.l.finalPath) =
              PathBasename(call.a.rel, PathExtname(call.a.rel))
                \o <<"_">> \o Chars(call.a.variant)
                \o FileExt(call.op, FetchedUrl(call))
         /\ ReportedLabel(call) = call.a.variant
         /\ files[call.l.finalPath] = Payload(FetchedUrl(call))
         /\ call.result.blocks[2].v[3] = Len(Payload(FetchedUrl(call)))

\* A download of a variant other than the default one, carried by the item,
\* succeeded with a payload that is not empty.
C13_Witness ==
  \E c \in Slots :
    /\ DownloadSucceeded(calls[c])
    /\ calls[c].a.variant = "large"
    /\ calls[c].a.variant \in VariantsOf(calls[c])
    /\ calls[c].l.buffer # <<>>
    /\ files[calls[c].l.finalPath] = calls[c].l.buffer

\* The order in which a download handler issues its outbound operations.
StepOrder == <<"lookup", "mkdir", "fetch", "write">>

\* C14: a download issues its steps in order and each at most once; when the
\* lookup gives no item (it threw, or its data is empty) nothing follows it;
\* and a response with a non-success status ends the call with the catch text
\* carrying that status, after one fetch and without a write.
C14_FailuresAreTerminal ==
  \A c \in Slots :
    LET call == calls[c]
    IN call.op \in DownloadTools =>
         /\ Len(call.ops) <= Len(StepOrder)
         /\ \A i \in 1..Len(call.ops) : call.ops[i].e = StepOrder[i]
         /\ (call.pc = "done" /\ call.l.data = Null) => Len(call.ops) <= 1
         /\ call.l.status \notin {0, 200} =>
              /\ call.pc = "done"
              /\ Len(call.ops) = 3
              /\ call.result =
                   [kind |-> "content",
                    blocks |-> << Block(CatchPrefix(call.op),
                                        << <<"Failed to download: ", call.l.status>> >>) >>]

\* A download ended at a response with status 404.
C14_Witness ==
  \E c \in Slots :
    /\ calls[c].op \in DownloadTools
    /\ calls[c].pc = "done"
    /\ calls[c].l.status = 404
    /\ Len(calls[c].ops) = 3

\* The path is written as an absolute one.
WrittenAbsolute(rel) == rel # <<>> /\ rel[1] = "/"

\* C15: a relative_save_path written as an absolute path is appended to the
\* workspace root, not taken in its place: the save path is the root followed
\* by the path, and (the path holding no ".." segment) the file of a
\* successful download lies below the root.
C15_AbsolutePathStaysUnderRoot ==
  \A c \in Slots :
    LET call == calls[c]
    IN ( /\ call.op \in DownloadTools
         /\ Len(call.ops) >= 2
         /\ WrittenAbsolute(call.a.rel) ) =>
           /\ call.l.fullSavePath = PathNormalize(call.l.wsJoined \o call.a.rel)
           /\ call.ops[2].target = PathDirname(PathNormalize(call.l.wsJoined \o call.a.rel))
           /\ ( /\ DownloadSucceeded(call)
                /\ <<".", ".">> \notin Range(Split(call.a.rel)) ) =>
                  /\ IsDescendant(call.l.finalPath, call.l.wsJoined)
                  /\ call.l.finalPath \in DOMAIN files

\* A download with a relative_save_path written as an absolute path succeeded.
C15_Witness ==
  \E c \in Slots :
    /\ DownloadSucceeded(calls[c])
    /\ WrittenAbsolute(calls[c].a.rel)
    /\ calls[c].l.wsJoined # <<"/">>
    /\ calls[c].l.finalPath \in DOMAIN files

\* The blocks are the given ones, followed by the rate-limit line exactly when
\* there is a snapshot.
WithSummaryIffPresent(blocks, base, rateLimit) ==
  /\ Len(blocks) = Len(base) + (IF rateLimit = Null THEN 0 ELSE 1)
  /\ SubSeq(blocks, 1, Len(base)) = base
  /\ rateLimit # Null => blocks[Len(blocks)].t = "Rate Limit: "

\* The errors with which a write may end.
WriteErrors == { <<"EIO">>, <<"EISDIR">>, <<"EEXIST">>, <<"ENOENT">> }

\* C16: whatever snapshot the lookup returned, getPhoto and getVideo answer a
\* found item with the same two blocks, and a download whose write went
\* through with the same three blocks, followed by the rate-limit line exactly
\* when a snapshot is present.
C16_SnapshotOnlyAddsItsLine ==
  \A c \in Slots :
    LET call == calls[c]
    IN /\ (call.op \in GetTools /\ call.pc = "done" /\ call.l.data # Null) =>
            WithSummaryIffPresent(
              call.result.blocks,
              << Block("Retrieved", <<call.a.id>>), Block("json", <<call.l.data>>) >>,
              call.l.rateLimit)
       /\ ( /\ call.op \in DownloadTools /\ call.pc = "done" /\ Len(call.ops) = 4
            /\ ~( /\ call.result.blocks[1].t = CatchPrefix(call.op)
                  /\ call.result.blocks[1].v \in WriteErrors ) ) =>
              WithSummaryIffPresent(call.result.blocks, DownloadedBlocks(call),
                                    call.l.rateLimit)

\* C18: the workspace root is unset or a path at which something exists; it
\* changes only in the step in which a setWorkspacePath call's check of an
\* existing path ends, and then to that path, with the success answer; and
\* once set it is never unset again.
C18_RootIsUnsetOrChecked ==
  /\ [](workspacePath = <<>> \/ workspacePath \in dirs \cup DOMAIN files)
  /\ [][ /\ workspacePath' # workspacePath =>
              \E c \in Slots :
                /\ calls[c].op = "setWorkspacePath"
                /\ calls[c].pc = "access"
                /\ calls'[c].pc = "done"
                /\ calls[c].a.path \in dirs \cup DOMAIN files
                /\ workspacePath' = calls[c].a.path
                /\ calls'[c].result.blocks[1].t = "Workspace path set to: "
         /\ workspacePath # <<>> => workspacePath' # <<>>
      ]_vars

\* A setWorkspacePath call has just replaced the root that a download still in
\* flight had found set.
C18_Witness ==
  \E c \in Slots, d \in Slots :
    /\ calls[c].op = "setWorkspacePath"
    /\ calls[c].pc = "done"
    /\ calls[c].result.blocks[1].t = "Workspace path set to: "
    /\ workspacePath = calls[c].a.path
    /\ calls[d].op \in DownloadTools
    /\ calls[d].l.wsChecked # <<>>
    /\ calls[d].l.wsChecked # workspacePath

\* C19: in a download the directory exists by the time the fetch is issued,
\* the write is issued only after a response with a success status, and the
\* directory of the file written is the directory created; and the files
\* change only in the step that ends such a write, and only at its target -
\* so a download that ends at the fetch leaves its directory and no file.
C19_DirectoryThenFetchThenWrite ==
  /\ [](\A c \in Slots :
          LET call == calls[c]
          IN call.op \in DownloadTools =>
               /\ Len(call.ops) >= 3 =>
                    /\ call.ops[2].e = "mkdir" /\ call.ops[3].e = "fetch"
                    /\ call.ops[2].target \in dirs
               /\ Len(call.ops) >= 4 =>
                    /\ call.ops[4].e = "write"
                    /\ call.l.status = 200
                    /\ PathDirname(call.ops[4].target) = call.ops[2].target)
  /\ [][ files' # files =>
           \E c \in Slots :
             /\ calls[c].op \in DownloadTools
             /\ calls[c].pc = "write"
             /\ calls[c].l.status = 200
             /\ DOMAIN files' = DOMAIN files \cup {calls[c].ops[4].target}
             /\ files'[calls[c].ops[4].target] = calls[c].l.buffer
             /\ \A p \in DOMAIN files : p # calls[c].ops[4].target => files'[p] = files[p]
      ]_vars

\* A download ended at its fetch: the directory it created is there, new, and
\* holds no file.
C19_Witness ==
  \E c \in Slots :
    /\ calls[c].op \in DownloadTools
    /\ calls[c].pc = "done"
    /\ Len(calls[c].ops) = 3
    /\ calls[c].l.status # 200
    /\ calls[c].ops[2].target \in dirs \ InitialDirs
    /\ \A p \in DOMAIN files : PathDirname(p) # calls[c].ops[2].target

====
